---- MODULE Spec2Model ----
(***************************************************************************)
(* Localization::parse of src/src/lib.rs as a state machine.               *)
(*                                                                         *)
(* A string is a sequence of one-character strings, so that splitting,     *)
(* trimming, slicing and the unit regex are computed character by          *)
(* character.  Indices named after the source (lang_entries, i) are        *)
(* 0-based as in the source; TLA+ sequences are 1-based, hence the +1.     *)
(***************************************************************************)
EXTENDS Integers, Sequences, FiniteSets, TLC

VARIABLES
    content,          \* the argument of parse
    pc,               \* position in parse: start, scan, group, units, done, panic
    lines,            \* content.lines().collect()
    lang_entries,     \* 0-based indices of the lines starting with l_
    units_for_entry,  \* HashMap<&str, Vec<&str>>, a function on its key set
    i,                \* index of the grouping loop (0-based)
    locals,           \* Vec<Localization> being built / returned
    round,            \* 0: parse of the input, 1: parse of the re-serialized unit
    saved             \* units of the first parse, kept for the round trip

vars == <<content, pc, lines, lang_entries, units_for_entry, i, locals, round, saved>>

-----------------------------------------------------------------------------
(* Characters *)

NL == "\n"
CR == "\r"
QUOTE == "\""
\* A character outside ASCII, and the vertical tab, which has no escape in a
\* TLA+ string, is written as the one-element label "U+XXXX" of its code
\* point.
\* A decimal digit outside ASCII (U+0663 ARABIC-INDIC DIGIT THREE): the
\* regex class \d is Unicode aware, str::parse::<i32> is not.
ArabicThree == "U+0663"
\* U+0664 ARABIC-INDIC DIGIT FOUR
ArabicFour == "U+0664"
\* U+00A0 NO-BREAK SPACE
NoBreakSpace == "U+00A0"
\* U+000C FORM FEED
FormFeed == "\f"

AsciiDigits == {"0", "1", "2", "3", "4", "5", "6", "7", "8", "9"}

\* The Unicode property White_Space: U+0009..U+000D, U+0020, U+0085, U+00A0,
\* U+1680, U+2000..U+200A, U+2028, U+2029, U+202F, U+205F, U+3000.
WhiteSpace ==
    {"\t", NL, FormFeed, CR, " ",
     "U+000B", "U+0085", "U+00A0", "U+1680", "U+2000", "U+2001", "U+2002",
     "U+2003", "U+2004", "U+2005", "U+2006", "U+2007", "U+2008", "U+2009",
     "U+200A", "U+2028", "U+2029", "U+202F", "U+205F", "U+3000"}

\* The Unicode general category Nd (decimal digit) outside ASCII, as of
\* Unicode 16: 75 runs of ten digits.
NonAsciiDecimalDigits ==
    {
     "U+0660", "U+0661", "U+0662", "U+0663", "U+0664", "U+0665", "U+0666", "U+0667", "U+0668", "U+0669",
     "U+06F0", "U+06F1", "U+06F2", "U+06F3", "U+06F4", "U+06F5", "U+06F6", "U+06F7", "U+06F8", "U+06F9",
     "U+07C0", "U+07C1", "U+07C2", "U+07C3", "U+07C4", "U+07C5", "U+07C6", "U+07C7", "U+07C8", "U+07C9",
     "U+0966", "U+0967", "U+0968", "U+0969", "U+096A", "U+096B", "U+096C", "U+096D", "U+096E", "U+096F",
     "U+09E6", "U+09E7", "U+09E8", "U+09E9", "U+09EA", "U+09EB", "U+09EC", "U+09ED", "U+09EE", "U+09EF",
     "U+0A66", "U+0A67", "U+0A68", "U+0A69", "U+0A6A", "U+0A6B", "U+0A6C", "U+0A6D", "U+0A6E", "U+0A6F",
     "U+0AE6", "U+0AE7", "U+0AE8", "U+0AE9", "U+0AEA", "U+0AEB", "U+0AEC", "U+0AED", "U+0AEE", "U+0AEF",
     "U+0B66", "U+0B67", "U+0B68", "U+0B69", "U+0B6A", "U+0B6B", "U+0B6C", "U+0B6D", "U+0B6E", "U+0B6F",
     "U+0BE6", "U+0BE7", "U+0BE8", "U+0BE9", "U+0BEA", "U+0BEB", "U+0BEC", "U+0BED", "U+0BEE", "U+0BEF",
     "U+0C66", "U+0C67", "U+0C68", "U+0C69", "U+0C6A", "U+0C6B", "U+0C6C", "U+0C6D", "U+0C6E", "U+0C6F",
     "U+0CE6", "U+0CE7", "U+0CE8", "U+0CE9", "U+0CEA", "U+0CEB", "U+0CEC", "U+0CED", "U+0CEE", "U+0CEF",
     "U+0D66", "U+0D67", "U+0D68", "U+0D69", "U+0D6A", "U+0D6B", "U+0D6C", "U+0D6D", "U+0D6E", "U+0D6F",
     "U+0DE6", "U+0DE7", "U+0DE8", "U+0DE9", "U+0DEA", "U+0DEB", "U+0DEC", "U+0DED", "U+0DEE", "U+0DEF",
     "U+0E50", "U+0E51", "U+0E52", "U+0E53", "U+0E54", "U+0E55", "U+0E56", "U+0E57", "U+0E58", "U+0E59",
     "U+0ED0", "U+0ED1", "U+0ED2", "U+0ED3", "U+0ED4", "U+0ED5", "U+0ED6", "U+0ED7", "U+0ED8", "U+0ED9",
     "U+0F20", "U+0F21", "U+0F22", "U+0F23", "U+0F24", "U+0F25", "U+0F26", "U+0F27", "U+0F28", "U+0F29",
     "U+1040", "U+1041", "U+1042", "U+1043", "U+1044", "U+1045", "U+1046", "U+1047", "U+1048", "U+1049",
     "U+1090", "U+1091", "U+1092", "U+1093", "U+1094", "U+1095", "U+1096", "U+1097", "U+1098", "U+1099",
     "U+17E0", "U+17E1", "U+17E2", "U+17E3", "U+17E4", "U+17E5", "U+17E6", "U+17E7", "U+17E8", "U+17E9",
     "U+1810", "U+1811", "U+1812", "U+1813", "U+1814", "U+1815", "U+1816", "U+1817", "U+1818", "U+1819",
     "U+1946", "U+1947", "U+1948", "U+1949", "U+194A", "U+194B", "U+194C", "U+194D", "U+194E", "U+194F",
     "U+19D0", "U+19D1", "U+19D2", "U+19D3", "U+19D4", "U+19D5", "U+19D6", "U+19D7", "U+19D8", "U+19D9",
     "U+1A80", "U+1A81", "U+1A82", "U+1A83", "U+1A84", "U+1A85", "U+1A86", "U+1A87", "U+1A88", "U+1A89",
     "U+1A90", "U+1A91", "U+1A92", "U+1A93", "U+1A94", "U+1A95", "U+1A96", "U+1A97", "U+1A98", "U+1A99",
     "U+1B50", "U+1B51", "U+1B52", "U+1B53", "U+1B54", "U+1B55", "U+1B56", "U+1B57", "U+1B58", "U+1B59",
     "U+1BB0", "U+1BB1", "U+1BB2", "U+1BB3", "U+1BB4", "U+1BB5", "U+1BB6", "U+1BB7", "U+1BB8", "U+1BB9",
     "U+1C40", "U+1C41", "U+1C42", "U+1C43", "U+1C44", "U+1C45", "U+1C46", "U+1C47", "U+1C48", "U+1C49",
     "U+1C50", "U+1C51", "U+1C52", "U+1C53", "U+1C54", "U+1C55", "U+1C56", "U+1C57", "U+1C58", "U+1C59",
     "U+A620", "U+A621", "U+A622", "U+A623", "U+A624", "U+A625", "U+A626", "U+A627", "U+A628", "U+A629",
     "U+A8D0", "U+A8D1", "U+A8D2", "U+A8D3", "U+A8D4", "U+A8D5", "U+A8D6", "U+A8D7", "U+A8D8", "U+A8D9",
     "U+A900", "U+A901", "U+A902", "U+A903", "U+A904", "U+A905", "U+A906", "U+A907", "U+A908", "U+A909",
     "U+A9D0", "U+A9D1", "U+A9D2", "U+A9D3", "U+A9D4", "U+A9D5", "U+A9D6", "U+A9D7", "U+A9D8", "U+A9D9",
     "U+A9F0", "U+A9F1", "U+A9F2", "U+A9F3", "U+A9F4", "U+A9F5", "U+A9F6", "U+A9F7", "U+A9F8", "U+A9F9",
     "U+AA50", "U+AA51", "U+AA52", "U+AA53", "U+AA54", "U+AA55", "U+AA56", "U+AA57", "U+AA58", "U+AA59",
     "U+ABF0", "U+ABF1", "U+ABF2", "U+ABF3", "U+ABF4", "U+ABF5", "U+ABF6", "U+ABF7", "U+ABF8", "U+ABF9",
     "U+FF10", "U+FF11", "U+FF12", "U+FF13", "U+FF14", "U+FF15", "U+FF16", "U+FF17", "U+FF18", "U+FF19",
     "U+104A0", "U+104A1", "U+104A2", "U+104A3", "U+104A4", "U+104A5", "U+104A6", "U+104A7", "U+104A8", "U+104A9",
     "U+10D30", "U+10D31", "U+10D32", "U+10D33", "U+10D34", "U+10D35", "U+10D36", "U+10D37", "U+10D38", "U+10D39",
     "U+10D40", "U+10D41", "U+10D42", "U+10D43", "U+10D44", "U+10D45", "U+10D46", "U+10D47", "U+10D48", "U+10D49",
     "U+11066", "U+11067", "U+11068", "U+11069", "U+1106A", "U+1106B", "U+1106C", "U+1106D", "U+1106E", "U+1106F",
     "U+110F0", "U+110F1", "U+110F2", "U+110F3", "U+110F4", "U+110F5", "U+110F6", "U+110F7", "U+110F8", "U+110F9",
     "U+11136", "U+11137", "U+11138", "U+11139", "U+1113A", "U+1113B", "U+1113C", "U+1113D", "U+1113E", "U+1113F",
     "U+111D0", "U+111D1", "U+111D2", "U+111D3", "U+111D4", "U+111D5", "U+111D6", "U+111D7", "U+111D8", "U+111D9",
     "U+112F0", "U+112F1", "U+112F2", "U+112F3", "U+112F4", "U+112F5", "U+112F6", "U+112F7", "U+112F8", "U+112F9",
     "U+11450", "U+11451", "U+11452", "U+11453", "U+11454", "U+11455", "U+11456", "U+11457", "U+11458", "U+11459",
     "U+114D0", "U+114D1", "U+114D2", "U+114D3", "U+114D4", "U+114D5", "U+114D6", "U+114D7", "U+114D8", "U+114D9",
     "U+11650", "U+11651", "U+11652", "U+11653", "U+11654", "U+11655", "U+11656", "U+11657", "U+11658", "U+11659",
     "U+116C0", "U+116C1", "U+116C2", "U+116C3", "U+116C4", "U+116C5", "U+116C6", "U+116C7", "U+116C8", "U+116C9",
     "U+116D0", "U+116D1", "U+116D2", "U+116D3", "U+116D4", "U+116D5", "U+116D6", "U+116D7", "U+116D8", "U+116D9",
     "U+116DA", "U+116DB", "U+116DC", "U+116DD", "U+116DE", "U+116DF", "U+116E0", "U+116E1", "U+116E2", "U+116E3",
     "U+11730", "U+11731", "U+11732", "U+11733", "U+11734", "U+11735", "U+11736", "U+11737", "U+11738", "U+11739",
     "U+118E0", "U+118E1", "U+118E2", "U+118E3", "U+118E4", "U+118E5", "U+118E6", "U+118E7", "U+118E8", "U+118E9",
     "U+11950", "U+11951", "U+11952", "U+11953", "U+11954", "U+11955", "U+11956", "U+11957", "U+11958", "U+11959",
     "U+11BF0", "U+11BF1", "U+11BF2", "U+11BF3", "U+11BF4", "U+11BF5", "U+11BF6", "U+11BF7", "U+11BF8", "U+11BF9",
     "U+11C50", "U+11C51", "U+11C52", "U+11C53", "U+11C54", "U+11C55", "U+11C56", "U+11C57", "U+11C58", "U+11C59",
     "U+11D50", "U+11D51", "U+11D52", "U+11D53", "U+11D54", "U+11D55", "U+11D56", "U+11D57", "U+11D58", "U+11D59",
     "U+11DA0", "U+11DA1", "U+11DA2", "U+11DA3", "U+11DA4", "U+11DA5", "U+11DA6", "U+11DA7", "U+11DA8", "U+11DA9",
     "U+11F50", "U+11F51", "U+11F52", "U+11F53", "U+11F54", "U+11F55", "U+11F56", "U+11F57", "U+11F58", "U+11F59",
     "U+16130", "U+16131", "U+16132", "U+16133", "U+16134", "U+16135", "U+16136", "U+16137", "U+16138", "U+16139",
     "U+16A60", "U+16A61", "U+16A62", "U+16A63", "U+16A64", "U+16A65", "U+16A66", "U+16A67", "U+16A68", "U+16A69",
     "U+16AC0", "U+16AC1", "U+16AC2", "U+16AC3", "U+16AC4", "U+16AC5", "U+16AC6", "U+16AC7", "U+16AC8", "U+16AC9",
     "U+16B50", "U+16B51", "U+16B52", "U+16B53", "U+16B54", "U+16B55", "U+16B56", "U+16B57", "U+16B58", "U+16B59",
     "U+16D70", "U+16D71", "U+16D72", "U+16D73", "U+16D74", "U+16D75", "U+16D76", "U+16D77", "U+16D78", "U+16D79",
     "U+1CCF0", "U+1CCF1", "U+1CCF2", "U+1CCF3", "U+1CCF4", "U+1CCF5", "U+1CCF6", "U+1CCF7", "U+1CCF8", "U+1CCF9",
     "U+1D7CE", "U+1D7CF", "U+1D7D0", "U+1D7D1", "U+1D7D2", "U+1D7D3", "U+1D7D4", "U+1D7D5", "U+1D7D6", "U+1D7D7",
     "U+1D7D8", "U+1D7D9", "U+1D7DA", "U+1D7DB", "U+1D7DC", "U+1D7DD", "U+1D7DE", "U+1D7DF", "U+1D7E0", "U+1D7E1",
     "U+1D7E2", "U+1D7E3", "U+1D7E4", "U+1D7E5", "U+1D7E6", "U+1D7E7", "U+1D7E8", "U+1D7E9", "U+1D7EA", "U+1D7EB",
     "U+1D7EC", "U+1D7ED", "U+1D7EE", "U+1D7EF", "U+1D7F0", "U+1D7F1", "U+1D7F2", "U+1D7F3", "U+1D7F4", "U+1D7F5",
     "U+1D7F6", "U+1D7F7", "U+1D7F8", "U+1D7F9", "U+1D7FA", "U+1D7FB", "U+1D7FC", "U+1D7FD", "U+1D7FE", "U+1D7FF",
     "U+1E140", "U+1E141", "U+1E142", "U+1E143", "U+1E144", "U+1E145", "U+1E146", "U+1E147", "U+1E148", "U+1E149",
     "U+1E2F0", "U+1E2F1", "U+1E2F2", "U+1E2F3", "U+1E2F4", "U+1E2F5", "U+1E2F6", "U+1E2F7", "U+1E2F8", "U+1E2F9",
     "U+1E4F0", "U+1E4F1", "U+1E4F2", "U+1E4F3", "U+1E4F4", "U+1E4F5", "U+1E4F6", "U+1E4F7", "U+1E4F8", "U+1E4F9",
     "U+1E5F1", "U+1E5F2", "U+1E5F3", "U+1E5F4", "U+1E5F5", "U+1E5F6", "U+1E5F7", "U+1E5F8", "U+1E5F9", "U+1E5FA",
     "U+1E950", "U+1E951", "U+1E952", "U+1E953", "U+1E954", "U+1E955", "U+1E956", "U+1E957", "U+1E958", "U+1E959",
     "U+1FBF0", "U+1FBF1", "U+1FBF2", "U+1FBF3", "U+1FBF4", "U+1FBF5", "U+1FBF6", "U+1FBF7", "U+1FBF8", "U+1FBF9"}

\* char::is_whitespace (str::trim) and the regex class \s: Unicode White_Space
IsWhitespace(c) == c \in WhiteSpace

\* regex \d: Unicode Nd
IsDigit(c) == c \in AsciiDigits \cup NonAsciiDecimalDigits

\* regex . (any character except \n)
IsDot(c) == c # NL

I32_MAX == 2147483647

-----------------------------------------------------------------------------
(* Pure helpers *)

StartsWith(s, p) == Len(s) >= Len(p) /\ SubSeq(s, 1, Len(p)) = p

Drop(s, n) == SubSeq(s, n + 1, Len(s))

\* str::lines(): split after every \n; a line loses its \n and then a \r
\* that stood right before that \n; a last line without \n is kept as is;
\* nothing follows a final \n.
\* (A bare \r that ends the input is kept: only \r\n is a line ending.)
RECURSIVE Lines(_)
Lines(s) ==
    IF s = <<>> THEN <<>>
    ELSE IF \E k \in 1..Len(s) : s[k] = NL
    THEN LET k == CHOOSE k \in 1..Len(s) :
                      s[k] = NL /\ \A j \in 1..(k - 1) : s[j] # NL
             raw == SubSeq(s, 1, k - 1)
             line == IF raw # <<>> /\ raw[Len(raw)] = CR
                     THEN SubSeq(raw, 1, Len(raw) - 1) ELSE raw
         IN  <<line>> \o Lines(Drop(s, k))
    ELSE <<s>>

\* str::trim()
RECURSIVE TrimStart(_)
TrimStart(s) ==
    IF s # <<>> /\ IsWhitespace(s[1]) THEN TrimStart(Tail(s)) ELSE s

RECURSIVE TrimEnd(_)
TrimEnd(s) ==
    IF s # <<>> /\ IsWhitespace(s[Len(s)])
    THEN TrimEnd(SubSeq(s, 1, Len(s) - 1)) ELSE s

Trim(s) == TrimEnd(TrimStart(s))

\* str::replace("l_", ""): the non-overlapping matches, found left to right
\* in the original text, are removed.
RECURSIVE ReplacePrefixMark(_)
ReplacePrefixMark(s) ==
    IF s = <<>> THEN <<>>
    ELSE IF StartsWith(s, <<"l", "_">>) THEN ReplacePrefixMark(Drop(s, 2))
    ELSE <<s[1]>> \o ReplacePrefixMark(Tail(s))

\* lang.replace("l_", "")
Header(lang) == ReplacePrefixMark(lang)

\* &lines[idx][2..]
EntryKey(line) == Drop(line, 2)

\* the filter_map over lines: the 0-based indices of the header lines
RECURSIVE LangEntriesUpTo(_, _)
LangEntriesUpTo(ls, n) ==
    IF n = 0 THEN <<>>
    ELSE LangEntriesUpTo(ls, n - 1) \o
         (IF StartsWith(ls[n], <<"l", "_">>) THEN <<n - 1>> ELSE <<>>)

LangEntries(ls) == LangEntriesUpTo(ls, Len(ls))

\* HashMap::insert: a present key has its value replaced
MapInsert(m, k, v) ==
    [x \in DOMAIN m \cup {k} |-> IF x = k THEN v ELSE m[x]]

MapRemove(m, k) == [x \in DOMAIN m \ {k} |-> m[x]]

-----------------------------------------------------------------------------
(* i32 and the version *)

NoVersion == <<>>
SomeVersion(n) == <<n>>

DigitVal(c) ==
    CASE c = "0" -> 0 [] c = "1" -> 1 [] c = "2" -> 2 [] c = "3" -> 3
      [] c = "4" -> 4 [] c = "5" -> 5 [] c = "6" -> 6 [] c = "7" -> 7
      [] c = "8" -> 8 [] c = "9" -> 9

\* str::parse::<i32>() on a run the regex matched with \d+: Err on a
\* character that is no ASCII digit and on a value above i32::MAX
\* (checked_mul(10), then checked_add(digit)).
RECURSIVE ParseI32From(_, _)
ParseI32From(ds, acc) ==
    IF ds = <<>> THEN [ok |-> TRUE, val |-> acc]
    ELSE IF ds[1] \notin AsciiDigits THEN [ok |-> FALSE, val |-> 0]
    ELSE IF acc > (I32_MAX - DigitVal(ds[1])) \div 10
         THEN [ok |-> FALSE, val |-> 0]
    ELSE ParseI32From(Tail(ds), acc * 10 + DigitVal(ds[1]))

\* ParseI32 with a saturating accumulator in place of the checked one:
\* a value above i32::MAX comes out as i32::MAX instead of Err.
RECURSIVE ParseI32FromSaturating(_, _)
ParseI32FromSaturating(ds, acc) ==
    IF ds = <<>> THEN [ok |-> TRUE, val |-> acc]
    ELSE IF ds[1] \notin AsciiDigits THEN [ok |-> FALSE, val |-> 0]
    ELSE IF acc > (I32_MAX - DigitVal(ds[1])) \div 10
         THEN [ok |-> TRUE, val |-> I32_MAX]
    ELSE ParseI32FromSaturating(Tail(ds), acc * 10 + DigitVal(ds[1]))

ParseI32Saturating(ds) == ParseI32FromSaturating(ds, 0)

ParseI32(ds) == ParseI32From(ds, 0)

-----------------------------------------------------------------------------
\* The unit regex  (?P<key>. *):(?P<version>\d+)?\s+\"(?P<content>. *)\"$
\* (written here with a blank between each dot and its star)

\* End of the longest run of \d right after position p (p itself: no digit).
\* \d+ is followed by \s+, a disjoint class, so only the longest run can be
\* followed by a match.
DigitRunEnd(s, p) ==
    CHOOSE e \in p..Len(s) :
        /\ \A k \in (p + 1)..e : IsDigit(s[k])
        /\ (e = Len(s) \/ ~IsDigit(s[e + 1]))

\* End of the longest run of \s right after position d; the next pattern
\* element is the quote, again disjoint from the class.
SpaceRunEnd(s, d) ==
    CHOOSE e \in d..Len(s) :
        /\ \A k \in (d + 1)..e : IsWhitespace(s[k])
        /\ (e = Len(s) \/ ~IsWhitespace(s[e + 1]))

\* The pattern matches s from position st with the colon at position p.
MatchAt(s, st, p) ==
    /\ st <= p /\ p <= Len(s)
    /\ s[p] = ":"
    /\ \A k \in st..(p - 1) : IsDot(s[k])
    /\ LET d == DigitRunEnd(s, p)
           w == SpaceRunEnd(s, d)
       IN  /\ w > d
           /\ w + 1 < Len(s)
           /\ s[w + 1] = QUOTE
           /\ s[Len(s)] = QUOTE
           /\ \A k \in (w + 2)..(Len(s) - 1) : IsDot(s[k])

\* Captures with a lazy key (the pattern written with .*? for the key): the
\* key ends at the first colon from which the rest matches.
CapturesLazyKey(s) ==
    LET hits == {st \in 1..Len(s) : \E p \in st..Len(s) : MatchAt(s, st, p)}
    IN  IF hits = {} THEN [matched |-> FALSE]
        ELSE LET st == CHOOSE x \in hits : \A y \in hits : x <= y
                 p == CHOOSE x \in st..Len(s) :
                          /\ MatchAt(s, st, x)
                          /\ \A y \in st..(x - 1) : ~MatchAt(s, st, y)
                 d == DigitRunEnd(s, p)
                 w == SpaceRunEnd(s, d)
             IN  [matched |-> TRUE,
                  key |-> SubSeq(s, st, p - 1),
                  hasVersion |-> d > p,
                  version |-> SubSeq(s, p + 1, d),
                  content |-> SubSeq(s, w + 2, Len(s) - 1)]

\* Captures with the key group closed one character late (the colon inside
\* the group): the key keeps its colon.
CapturesKeyThroughColon(s) ==
    LET hits == {st \in 1..Len(s) : \E p \in st..Len(s) : MatchAt(s, st, p)}
    IN  IF hits = {} THEN [matched |-> FALSE]
        ELSE LET st == CHOOSE x \in hits : \A y \in hits : x <= y
                 p == CHOOSE x \in st..Len(s) :
                          /\ MatchAt(s, st, x)
                          /\ \A y \in (x + 1)..Len(s) : ~MatchAt(s, st, y)
                 d == DigitRunEnd(s, p)
                 w == SpaceRunEnd(s, d)
             IN  [matched |-> TRUE,
                  key |-> SubSeq(s, st, p),
                  hasVersion |-> d > p,
                  version |-> SubSeq(s, p + 1, d),
                  content |-> SubSeq(s, w + 2, Len(s) - 1)]

\* Regex::captures: leftmost start, then the greedy key takes the last colon
\* from which the rest of the pattern matches.
Captures(s) ==
    LET hits == {st \in 1..Len(s) : \E p \in st..Len(s) : MatchAt(s, st, p)}
    IN  IF hits = {} THEN [matched |-> FALSE]
        ELSE LET st == CHOOSE x \in hits : \A y \in hits : x <= y
                 p == CHOOSE x \in st..Len(s) :
                          /\ MatchAt(s, st, x)
                          /\ \A y \in (x + 1)..Len(s) : ~MatchAt(s, st, y)
                 d == DigitRunEnd(s, p)
                 w == SpaceRunEnd(s, d)
             IN  [matched |-> TRUE,
                  key |-> SubSeq(s, st, p - 1),
                  hasVersion |-> d > p,
                  version |-> SubSeq(s, p + 1, d),
                  content |-> SubSeq(s, w + 2, Len(s) - 1)]

\* The body of `for unit in units`, for one line: skip, panic or push.
ParseUnit(unit) ==
    LET t == Trim(unit)
        caps == Captures(t)
    IN  IF t = <<>> \/ StartsWith(t, <<"#">>) THEN [kind |-> "skip"]
        ELSE IF ~caps.matched THEN [kind |-> "panic"]
        ELSE IF caps.hasVersion /\ ~ParseI32(caps.version).ok
             THEN [kind |-> "panic"]
        ELSE [kind |-> "unit",
              unit |-> [key |-> caps.key,
                        version |-> IF caps.hasVersion
                                    THEN SomeVersion(ParseI32(caps.version).val)
                                    ELSE NoVersion,
                        value |-> caps.content]]

\* The inner loop over one group's lines: the units pushed, or a panic.
RECURSIVE ParseUnits(_)
ParseUnits(units) ==
    IF units = <<>> THEN [panic |-> FALSE, units |-> <<>>]
    ELSE LET r == ParseUnit(units[1])
             rest == ParseUnits(Tail(units))
         IN  IF r.kind = "panic" \/ rest.panic
             THEN [panic |-> TRUE, units |-> <<>>]
             ELSE [panic |-> FALSE,
                   units |-> (IF r.kind = "unit" THEN <<r.unit>> ELSE <<>>)
                             \o rest.units]

-----------------------------------------------------------------------------
(* Actions *)

EmptyMap == <<>>

\* let lines = content.lines().collect()
SplitLines ==
    /\ pc = "start"
    /\ lines' = Lines(content)
    /\ pc' = "scan"
    /\ UNCHANGED <<content, lang_entries, units_for_entry, i, locals, round, saved>>

\* let lang_entries = ...; let mut units_for_entry = HashMap::new()
ScanEntries ==
    /\ pc = "scan"
    /\ lang_entries' = LangEntries(lines)
    /\ units_for_entry' = EmptyMap
    /\ i' = 0
    /\ pc' = "group"
    /\ UNCHANGED <<content, lines, locals, round, saved>>

\* one iteration of `for (i, lang_entry_idx) in lang_entries.iter().enumerate()`
InsertEntry ==
    /\ pc = "group"
    /\ i < Len(lang_entries)
    /\ LET lang_entry_idx == lang_entries[i + 1]
           next_entry_idx == IF i = Len(lang_entries) - 1
                             THEN Len(lines)
                             ELSE lang_entries[i + 2]
           associated_units == SubSeq(lines, lang_entry_idx + 2, next_entry_idx)
       IN  units_for_entry' =
               MapInsert(units_for_entry, EntryKey(lines[lang_entry_idx + 1]),
                         associated_units)
    /\ i' = i + 1
    /\ UNCHANGED <<content, pc, lines, lang_entries, locals, round, saved>>

\* the grouping loop ends; let mut locals = Vec::new()
GroupDone ==
    /\ pc = "group"
    /\ i = Len(lang_entries)
    /\ locals' = <<>>
    /\ pc' = "units"
    /\ UNCHANGED <<content, lines, lang_entries, units_for_entry, i, round, saved>>

\* one iteration of `for (lang, units) in units_for_entry`: the map is
\* consumed in an order the hasher decides.
ParseEntry ==
    /\ pc = "units"
    /\ \E lang \in DOMAIN units_for_entry :
         LET r == ParseUnits(units_for_entry[lang])
         IN  /\ units_for_entry' = MapRemove(units_for_entry, lang)
             /\ IF r.panic
                THEN pc' = "panic" /\ locals' = <<>>
                ELSE /\ pc' = "units"
                     /\ locals' = Append(locals, [lang |-> Header(lang),
                                                  units |-> r.units])
    /\ UNCHANGED <<content, lines, lang_entries, i, round, saved>>

\* the map is exhausted: parse returns locals
Return ==
    /\ pc = "units"
    /\ DOMAIN units_for_entry = {}
    /\ pc' = "done"
    /\ UNCHANGED <<content, lines, lang_entries, units_for_entry, i, locals, round, saved>>

Next ==
    \/ SplitLines
    \/ ScanEntries
    \/ InsertEntry
    \/ GroupDone
    \/ ParseEntry
    \/ Return

-----------------------------------------------------------------------------
(* Inputs of the file-level specification *)

MaxLines == 4

SeqsUpTo(S, n) == UNION {[1..k -> S] : k \in 0..n}

\* l_a:
HdrA == <<"l", "_", "a", ":">>
\* l_b   (no trailing colon)
HdrB == <<"l", "_", "b">>
\* l_l_a:   (the text after the prefix holds l_ again)
HdrLA == <<"l", "_", "l", "_", "a", ":">>
\* l_a: followed by \r, the line of a \r\n file
HdrACr == <<"l", "_", "a", ":", CR>>
\*  k: "v"
UnitK == <<" ", "k", ":", " ", QUOTE, "v", QUOTE>>
\*  k:0 "w"
UnitK0 == <<" ", "k", ":", "0", " ", QUOTE, "w", QUOTE>>
\*  #c
CommentLine == <<" ", "#", "c">>
BlankLine == <<" ", FormFeed>>
\*  bad
BadLine == <<" ", "b", "a", "d">>

FilePool ==
    {HdrA, HdrB, HdrLA, HdrACr, UnitK, UnitK0, CommentLine, BlankLine, BadLine}

\* the lines joined by \n, with or without a final \n
RECURSIVE Join(_)
Join(ls) ==
    IF ls = <<>> THEN <<>>
    ELSE IF Len(ls) = 1 THEN ls[1]
    ELSE ls[1] \o <<NL>> \o Join(Tail(ls))

FileInputs ==
    {Join(ls) : ls \in SeqsUpTo(FilePool, MaxLines)}
        \cup {Join(ls) \o <<NL>> : ls \in SeqsUpTo(FilePool, MaxLines)}

Fresh ==
    /\ pc = "start"
    /\ lines = <<>>
    /\ lang_entries = <<>>
    /\ units_for_entry = EmptyMap
    /\ i = 0
    /\ locals = <<>>
    /\ round = 0
    /\ saved = <<>>

Init == content \in FileInputs /\ Fresh

Spec == Init /\ [][Next]_vars

-----------------------------------------------------------------------------
(* Inputs of the unit-level specification: l_a, then one line *)

MaxLen == 6

UnitAlphabet == {"a", ":", "0", " ", QUOTE}

UnderHeader(line) == <<"l", "_", "a", NL>> \o line

Indents == {<<>>, <<" ">>}

Keys ==
    {<<>>, <<"a">>, <<"a", ".", "b">>, <<"l", "_">>, <<"l", "_", "b">>,
     <<"#", "a">>, <<"a", QUOTE, "b">>, <<"a", ":", "1", " ", QUOTE, "b">>,
     <<"a", ":", "1">>}

DigitRuns ==
    {<<>>, <<"0">>, <<"7">>, <<"0", "0", "7">>, <<"1", "0">>,
     <<"2", "1", "4", "7", "4", "8", "3", "6", "4", "7">>,
     <<"2", "1", "4", "7", "4", "8", "3", "6", "4", "8">>,
     <<"0", "2", "1", "4", "7", "4", "8", "3", "6", "4", "7">>,
     <<"9", "9", "9", "9", "9", "9", "9", "9", "9", "9", "9">>,
     <<"1", ArabicThree>>, <<ArabicFour>>}

Separators == {<<" ">>, <<>>, <<"\t", " ">>, <<NoBreakSpace>>}

Values ==
    {<<>>, <<"b">>, <<"b", QUOTE, "c">>, <<"b", ":", " ", QUOTE, "c">>,
     <<"b", ":", "2", " ", "c">>, <<"b", "\\", "n">>,
     <<"b", ":", ArabicFour, " ", QUOTE, "c">>}

StructuredLines ==
    {ind \o k \o <<":">> \o d \o sep \o <<QUOTE>> \o v \o <<QUOTE>> :
        ind \in Indents, k \in Keys, d \in DigitRuns, sep \in Separators,
        v \in Values}

UnitInputs ==
    {UnderHeader(l) : l \in SeqsUpTo(UnitAlphabet, MaxLen) \cup StructuredLines}

\* i32 Display: the decimal digits of a non-negative value, no leading zero
DigitChar(n) ==
    CASE n = 0 -> "0" [] n = 1 -> "1" [] n = 2 -> "2" [] n = 3 -> "3"
      [] n = 4 -> "4" [] n = 5 -> "5" [] n = 6 -> "6" [] n = 7 -> "7"
      [] n = 8 -> "8" [] n = 9 -> "9"

RECURSIVE ToDigits(_)
ToDigits(n) ==
    IF n < 10 THEN <<DigitChar(n)>>
    ELSE ToDigits(n \div 10) \o <<DigitChar(n % 10)>>

\* key:version "value", the version digits omitted when absent
Serialize(u) ==
    u.key \o <<":">>
          \o (IF u.version = NoVersion THEN <<>> ELSE ToDigits(u.version[1]))
          \o <<" ", QUOTE>> \o u.value \o <<QUOTE>>

\* The round trip of C6.  The repository has no writer: ToDigits, Serialize
\* and Reserialize are the construction the property names (key:version
\* "value" directly under a header line), followed by a second run of parse.
\* A unit of the returned result is written under a header and parsed again.
Reserialize ==
    /\ pc = "done"
    /\ round = 0
    /\ \E j \in 1..Len(locals) : \E k \in 1..Len(locals[j].units) :
         /\ saved' = locals[j].units[k]
         /\ content' = UnderHeader(Serialize(locals[j].units[k]))
    /\ round' = 1
    /\ pc' = "start"
    /\ lines' = <<>>
    /\ lang_entries' = <<>>
    /\ units_for_entry' = EmptyMap
    /\ i' = 0
    /\ locals' = <<>>

InitUnit == content \in UnitInputs /\ Fresh

NextUnit == Next \/ Reserialize

SpecUnit == InitUnit /\ [][NextUnit]_vars

-----------------------------------------------------------------------------
(* Vocabulary of the properties, stated on the input and the result *)

IsHeaderLine(l) == StartsWith(l, <<"l", "_">>)

\* 1-based positions of the header lines of the input
HeaderIdx == {k \in 1..Len(lines) : IsHeaderLine(lines[k])}

\* the position of the next header line after h, or one past the last line
NextHeaderOrEnd(h) ==
    IF \E k \in HeaderIdx : k > h
    THEN CHOOSE k \in HeaderIdx : k > h /\ \A m \in HeaderIdx : m > h => k <= m
    ELSE Len(lines) + 1

\* the lines between header h and the next header
OwnedLines(h) == SubSeq(lines, h + 1, NextHeaderOrEnd(h) - 1)

IsBlankOrComment(l) == Trim(l) = <<>> \/ Trim(l)[1] = "#"

\* the header text: the line without its first two characters
HeaderText(h) == SubSeq(lines[h], 3, Len(lines[h]))

\* parse has returned a result for the input
Returned == pc = "done" /\ round = 0

Range(f) == {f[x] : x \in DOMAIN f}

QuotePositions(t) == {k \in 1..Len(t) : t[k] = QUOTE}

MinOf(S) == CHOOSE x \in S : \A y \in S : x <= y
MaxOf(S) == CHOOSE x \in S : \A y \in S : x >= y

\* position of the quote that ends a separator (colon, digits, at least
\* one whitespace, quote) whose colon is at p, with a later closing quote
SeparatorQuote(t, p) ==
    {q \in (p + 2)..(Len(t) - 1) :
        /\ t[p] = ":"
        /\ t[q] = QUOTE
        /\ t[Len(t)] = QUOTE
        /\ \E d \in p..(q - 2) :
              /\ \A k \in (p + 1)..d :
                    t[k] \in AsciiDigits \cup NonAsciiDecimalDigits
              /\ \A k \in (d + 1)..(q - 1) : t[k] \in WhiteSpace}

\* In the unit-level inputs the line under the header is lines[2].
UnitLine == lines[2]
UnitText == Trim(lines[2])
Accepted ==
    /\ pc = "done"
    /\ Len(lines) = 2
    /\ ~IsHeaderLine(lines[2])
    /\ Len(locals) = 1
    /\ Len(locals[1].units) = 1
TheUnit == locals[1].units[1]

RECURSIVE StripZeros(_)
StripZeros(ds) ==
    IF Len(ds) > 1 /\ ds[1] = "0" THEN StripZeros(Tail(ds)) ELSE ds

MaxDigits == ToDigits(I32_MAX)

\* the value of an ASCII digit run is at most i32::MAX, decided on the digits
DigitsFit(ds) ==
    LET z == StripZeros(ds)
    IN  \/ Len(z) < Len(MaxDigits)
        \/ /\ Len(z) = Len(MaxDigits)
           /\ \/ z = MaxDigits
              \/ \E k \in 1..Len(z) :
                    /\ \A m \in 1..(k - 1) : z[m] = MaxDigits[m]
                    /\ DigitVal(z[k]) < DigitVal(MaxDigits[k])

\* t is K:D "V" with the colon at p, the digit run D ending at e (e = p: no
\* digits), one blank, and a value V without a double quote
VersionForm(t, p, e) ==
    /\ 1 <= p /\ p <= e /\ e + 3 <= Len(t)
    /\ t[p] = ":"
    /\ \A k \in (p + 1)..e : t[k] \in AsciiDigits
    /\ t[e + 1] = " "
    /\ t[e + 2] = QUOTE
    /\ t[Len(t)] = QUOTE
    /\ \A k \in (e + 3)..(Len(t) - 1) : t[k] # QUOTE

\* a line under the header that is neither a header, blank nor a comment
IsUnitLine ==
    /\ Len(lines) = 2
    /\ ~IsHeaderLine(lines[2])
    /\ ~IsBlankOrComment(lines[2])

-----------------------------------------------------------------------------
(* File-level properties, under Spec *)

\* C1: when the only header line is l_X: and parse returns, the result is
\* one Localization whose lang is X, without l_ and without the colon.
C1_LangWithoutColon ==
    (/\ Returned
     /\ Cardinality(HeaderIdx) = 1
     /\ \A h \in HeaderIdx : lines[h][Len(lines[h])] = ":")
    => /\ Len(locals) = 1
       /\ \A h \in HeaderIdx :
            locals[1].lang = SubSeq(lines[h], 3, Len(lines[h]) - 1)

\* C2: parse never returns a result for an input in which a line after a
\* header line is not blank, not a comment and does not match the unit
\* grammar.
C2_MalformedLineFails ==
    Returned =>
        \A k \in 1..Len(lines) :
            (/\ \E h \in HeaderIdx : h < k
             /\ ~IsHeaderLine(lines[k])
             /\ ~IsBlankOrComment(lines[k]))
            => \E p \in 1..Len(Trim(lines[k])) :
                   SeparatorQuote(Trim(lines[k]), p) # {}

\* C3: the result holds as many Localizations as the input has header lines.
C3_OneLocalizationPerHeader ==
    Returned => Len(locals) = Cardinality(HeaderIdx)

\* C4: the Localizations correspond one to one to header lines, the units of
\* each are those of the lines its header owns, in line order, and no header's
\* lines are left out.
C4_UnitsOfOwnedLines ==
    Returned =>
        \E f \in [1..Len(locals) -> HeaderIdx] :
            /\ \A a, b \in 1..Len(locals) : f[a] = f[b] => a = b
            /\ \A j \in 1..Len(locals) :
                  locals[j].units = ParseUnits(OwnedLines(f[j])).units
            /\ \A h \in HeaderIdx :
                  ParseUnits(OwnedLines(h)).units # <<>> => h \in Range(f)

\* C5: every lang is the text of a header line after its first two
\* characters, unchanged, and distinct header texts give distinct langs.
C5_LangIsHeaderText ==
    Returned =>
        /\ \A j \in 1..Len(locals) :
              \E h \in HeaderIdx : locals[j].lang = HeaderText(h)
        /\ Cardinality({locals[j].lang : j \in 1..Len(locals)})
              = Cardinality({HeaderText(h) : h \in HeaderIdx})

\* C8: when a header text occurs on several header lines, one Localization
\* holds a unit for every unit line owned by any of the occurrences.
C8_RepeatedHeaderMerged ==
    Returned =>
        \A h1 \in HeaderIdx :
            (\E h2 \in HeaderIdx : h2 # h1 /\ HeaderText(h2) = HeaderText(h1))
            => \E j \in 1..Len(locals) :
                   \A h \in HeaderIdx :
                       HeaderText(h) = HeaderText(h1)
                       => Range(ParseUnits(OwnedLines(h)).units)
                              \subseteq Range(locals[j].units)

-----------------------------------------------------------------------------
(* Unit-level properties, under SpecUnit *)

\* C6 as stated: a unit of a returned result, written as key:version "value"
\* under a header line and parsed again, comes back as the only unit, equal
\* in key, version and value.
C6_RoundTrip ==
    (round = 1 /\ pc \in {"done", "panic"})
    => /\ pc = "done"
       /\ Len(locals) = 1
       /\ locals[1].units = <<saved>>

\* C6 amended: the same, for the units whose key does not start with l_
\* (such a key makes the written line a header line).
C6_RoundTripNoHeaderKey ==
    (round = 1 /\ pc \in {"done", "panic"} /\ ~StartsWith(saved.key, <<"l", "_">>))
    => /\ pc = "done"
       /\ Len(locals) = 1
       /\ locals[1].units = <<saved>>

\* C6 witness: a versioned unit with a non-empty key came back equal.
C6_Witness ==
    /\ round = 1
    /\ pc = "done"
    /\ Len(locals) = 1
    /\ locals[1].units = <<saved>>
    /\ saved.key # <<>>
    /\ saved.version # NoVersion
    /\ saved.value # <<>>

\* C7: no unit of a returned result has the empty key.
C7_KeyNonEmpty ==
    pc = "done" =>
        \A j \in 1..Len(locals) : \A k \in 1..Len(locals[j].units) :
            locals[j].units[k].key # <<>>

\* C9 as stated: the value of an accepted unit line is the text strictly
\* between the first and the last double quote of the trimmed line, and the
\* key lies before the first double quote.
C9_ValueBetweenFirstAndLastQuote ==
    Accepted =>
        LET t == UnitText
            q1 == MinOf(QuotePositions(t))
            qn == MaxOf(QuotePositions(t))
        IN  /\ TheUnit.value = SubSeq(t, q1 + 1, qn - 1)
            /\ Len(TheUnit.key) < q1
            /\ TheUnit.key = SubSeq(t, 1, Len(TheUnit.key))

\* C9 amended: the value is the text strictly between the quote of the last
\* separator (colon, optional digits, whitespace, quote) of the trimmed line
\* and the line's last double quote, and the key is the text before that
\* separator's colon; on a line with exactly two double quotes that is the
\* text between the first and the last quote, the key lying before the first.
C9_ValueAfterLastSeparator ==
    Accepted =>
        LET t == UnitText
            seps == {p \in 1..Len(t) : SeparatorQuote(t, p) # {}}
        IN  /\ seps # {}
            /\ LET p == MaxOf(seps)
                   q == MaxOf(SeparatorQuote(t, p))
               IN  /\ TheUnit.key = SubSeq(t, 1, p - 1)
                   /\ TheUnit.value = SubSeq(t, q + 1, Len(t) - 1)
                   /\ Cardinality(QuotePositions(t)) = 2
                        => /\ q = MinOf(QuotePositions(t))
                           /\ Len(t) = MaxOf(QuotePositions(t))
                           /\ Len(TheUnit.key) < q

\* C9 witness: an accepted line whose key holds a double quote, so that the
\* value does not start at the first quote.
C9_Witness ==
    /\ Accepted
    /\ Cardinality(QuotePositions(UnitText)) > 2
    /\ QUOTE \in Range(TheUnit.key)
    /\ TheUnit.value # <<>>

\* C10 as stated: a unit line K:D "V" is accepted for every non-empty digit
\* run D, with version the value of D; without digits the version is absent.
C10_VersionOfEveryDigitRun ==
    (pc \in {"done", "panic"} /\ IsUnitLine) =>
        \A p \in 1..Len(UnitText) : \A e \in p..Len(UnitText) :
            VersionForm(UnitText, p, e)
            => /\ Accepted
               /\ IF e = p THEN TheUnit.version = NoVersion
                  ELSE /\ TheUnit.version # NoVersion
                       /\ TheUnit.version[1] >= 0
                       /\ ToDigits(TheUnit.version[1])
                              = StripZeros(SubSeq(UnitText, p + 1, e))

\* C10 amended: the same for the digit runs whose value is at most 2^31-1;
\* on a digit run above 2^31-1 parse aborts.
C10_VersionOfFittingDigitRun ==
    (pc \in {"done", "panic"} /\ IsUnitLine) =>
        \A p \in 1..Len(UnitText) : \A e \in p..Len(UnitText) :
            VersionForm(UnitText, p, e)
            => IF e = p
               THEN Accepted /\ TheUnit.version = NoVersion
               ELSE IF DigitsFit(SubSeq(UnitText, p + 1, e))
               THEN /\ Accepted
                    /\ TheUnit.version # NoVersion
                    /\ TheUnit.version[1] >= 0
                    /\ TheUnit.version[1] <= I32_MAX
                    /\ ToDigits(TheUnit.version[1])
                           = StripZeros(SubSeq(UnitText, p + 1, e))
               ELSE pc = "panic"

\* C10 witness: the largest version, 2147483647, was accepted.
C10_Witness ==
    /\ Accepted
    /\ round = 0
    /\ TheUnit.version = SomeVersion(I32_MAX)

====
